---- MODULE Spec2Model ----
(***************************************************************************)
(* RISC-V (RV32I subset) toolchain of mukulyadav525/CO-Project:            *)
(* Simulator.py (fetch-decode-execute loop over 32 words / 32 registers)   *)
(* and Assembler.py (two-pass assembler).                                  *)
(*                                                                         *)
(* A 32-bit machine word does not fit TLC's integers, so a word is the     *)
(* record [hi, lo] of its two 16-bit halves (value hi * 2^16 + lo); every  *)
(* Python expression on words is computed on the halves.  The program     *)
(* counter, the instruction count, and field values are plain integers.   *)
(* A text line of '0'/'1' characters is a sequence over {0, 1}.            *)
(***************************************************************************)
EXTENDS Integers, Sequences, FiniteSets, TLC

\* ------------------------------------------------------------ bounds
\* The instruction budget of execute_program (100000 in the source, line 15),
\* scaled down so that the budget exit is reached.
max_instructions == 5

\* ------------------------------------------------------ program constants
NumWords == 32
NumRegs == 32
Half == 2 ^ 16

\* --------------------------------------------------------- 32-bit words
Word(h, l) == [hi |-> h, lo |-> l]
Zero == Word(0, 0)
\* a small non-negative Python int (< 2^31) as a word
FromInt(n) == Word(n \div Half, n % Half)

\* (a + b) & 0xffffffff
Add32(a, b) ==
    LET s == a.lo + b.lo
    IN  Word((a.hi + b.hi + (s \div Half)) % Half, s % Half)

\* a - b without the & 0xffffffff: the high half goes negative on a borrow
Sub32_NoMask(a, b) ==
    LET d == a.lo - b.lo
        borrow == IF d < 0 THEN 1 ELSE 0
    IN  [hi |-> a.hi - b.hi - borrow, lo |-> d % Half]

\* (a - b) & 0xffffffff
Sub32(a, b) ==
    LET d == a.lo - b.lo
        borrow == IF d < 0 THEN 1 ELSE 0
    IN  Word((a.hi - b.hi - borrow) % Half, d % Half)

\* (x ^ 0x80000000) - 0x80000000 : the signed value of a 32-bit word
Signed32(a) ==
    (IF a.hi >= 32768 THEN a.hi - Half ELSE a.hi) * Half + a.lo

Pow2(n) == 2 ^ n

RECURSIVE BitAndN(_, _, _)
BitAndN(a, b, n) ==
    IF n = 0 THEN 0
    ELSE (a % 2) * (b % 2) + 2 * BitAndN(a \div 2, b \div 2, n - 1)

RECURSIVE BitOrN(_, _, _)
BitOrN(a, b, n) ==
    IF n = 0 THEN 0
    ELSE (IF (a % 2) + (b % 2) > 0 THEN 1 ELSE 0)
         + 2 * BitOrN(a \div 2, b \div 2, n - 1)

\* (a | b) & 0xffffffff
Or32(a, b) == Word(BitOrN(a.hi, b.hi, 16), BitOrN(a.lo, b.lo, 16))
\* (a & b) & 0xffffffff
And32(a, b) == Word(BitAndN(a.hi, b.hi, 16), BitAndN(a.lo, b.lo, 16))

\* (a & 0xffffffff) >> shamt, 0 <= shamt <= 31
Srl32(a, shamt) ==
    IF shamt >= 16
    THEN Word(0, a.hi \div Pow2(shamt - 16))
    ELSE Word(a.hi \div Pow2(shamt),
              (a.lo \div Pow2(shamt)) + (a.hi % Pow2(shamt)) * Pow2(16 - shamt))

\* x // 4 of a 32-bit word (at most 0x3fffffff, a plain integer)
Div4(a) == a.hi * 16384 + (a.lo \div 4)

\* ------------------------------------------------------- field decoding
\* instruction & 0x7f
opcode(instruction) == instruction.lo % 128
\* (instruction >> 7) & 0x1f
rd(instruction) == (instruction.lo \div 128) % 32
\* (instruction >> 12) & 0x7
funct3(instruction) == (instruction.lo \div 4096) % 8
\* (instruction >> 15) & 0x1f
rs1(instruction) == (instruction.lo \div 32768) + 2 * (instruction.hi % 16)
\* (instruction >> 20) & 0x1f
rs2(instruction) == (instruction.hi \div 16) % 32
\* (instruction >> 25) & 0x7f
funct7(instruction) == (instruction.hi \div 512) % 128

\* SignExtend12 without the extension: the field zero-extended
SignExtend12_Zero(imm) == Word(0, imm)

\* sign extension of a 12-bit field: if imm & 0x800: imm |= 0xfffff000
SignExtend12(imm) ==
    IF (imm \div 2048) % 2 = 1 THEN Word(65535, 61440 + imm) ELSE Word(0, imm)

imm_i(instruction) == SignExtend12((instruction.hi \div 16) % 4096)

\* the S-type immediate: (imm_11_5 << 5) | imm_4_0, sign-extended
imm_s(instruction) ==
    SignExtend12(funct7(instruction) * 32 + rd(instruction))

\* imm_b without the sign extension
imm_b_Unsigned(instruction) ==
    LET imm_12   == (instruction.hi \div 32768) % 2
        imm_10_5 == (instruction.hi \div 512) % 64
        imm_4_1  == (instruction.lo \div 256) % 16
        imm_11   == (instruction.lo \div 128) % 2
    IN  Word(0, imm_12 * 4096 + imm_11 * 2048 + imm_10_5 * 32 + imm_4_1 * 2)

imm_b(instruction) ==
    LET imm_12   == (instruction.hi \div 32768) % 2
        imm_10_5 == (instruction.hi \div 512) % 64
        imm_4_1  == (instruction.lo \div 256) % 16
        imm_11   == (instruction.lo \div 128) % 2
        val == imm_12 * 4096 + imm_11 * 2048 + imm_10_5 * 32 + imm_4_1 * 2
    IN  IF imm_12 = 1 THEN Word(65535, 57344 + val) ELSE Word(0, val)

imm_j(instruction) ==
    LET imm_20    == (instruction.hi \div 32768) % 2
        imm_19_12 == (instruction.lo \div 4096) + 16 * (instruction.hi % 16)
        imm_11    == (instruction.hi \div 16) % 2
        imm_10_1  == (instruction.hi \div 32) % 1024
        \* val = hi16 * 2^16 + lo16
        hi16 == imm_20 * 16 + (imm_19_12 \div 16)
        lo16 == (imm_19_12 % 16) * 4096 + imm_11 * 2048 + imm_10_1 * 2
    IN  IF imm_20 = 1 THEN Word(65504 + hi16, lo16) ELSE Word(hi16, lo16)

\* ------------------------------------------------------------- state
VARIABLES
    memory,       \* self.memory: 32 words
    registers,    \* self.registers: x0..x31
    pc,           \* self.pc: word index (an unbounded Python int)
    halted,       \* self.halted
    instr_count,  \* execute_program's local instr_count
    trace,        \* the lines written to the trace file
    phase,        \* "constructed", "running" (inside execute_program), "done"
    outcome,      \* how the run ended: "none" while it has not
    input_file,   \* Assembler.py: the lines of the source file read.txt
    asm           \* Assembler.py: the module-level state of the run (pass,
                  \* lines read in this pass, i, label_dict, output file, check)

simvars == <<memory, registers, pc, halted, instr_count, trace, phase, outcome>>
asmvars == <<input_file, asm>>
vars == <<memory, registers, pc, halted, instr_count, trace, phase, outcome,
          input_file, asm>>

\* The machine state execute_instruction reads and writes.
Machine(regs, mem, p, h) ==
    [registers |-> regs, memory |-> mem, pc |-> p, halted |-> h]

\* What one branch of execute_instruction leaves behind: ok is the value
\* returned, fall says whether control reached the common tail (line 237).
Outcome(ok, fall, m) == [ok |-> ok, fall |-> fall, m |-> m]
Fatal(m) == Outcome(FALSE, FALSE, m)
Through(m) == Outcome(TRUE, TRUE, m)

SetReg(m, r, v) == [m EXCEPT !.registers[r] = v]

\* ------------------------------------------------ execute_instruction
\* R-type (opcode 0x33)
ExecRType(instruction, m) ==
    LET d  == rd(instruction)
        a  == m.registers[rs1(instruction)]
        b  == m.registers[rs2(instruction)]
        f3 == funct3(instruction)
        f7 == funct7(instruction)
        Done(v) == Through([SetReg(m, d, v) EXCEPT !.pc = m.pc + 1])
    IN  CASE f3 = 0 /\ f7 = 0  -> Done(Add32(a, b))
          [] f3 = 0 /\ f7 = 32 -> Done(Sub32(a, b))
          [] f3 = 0 /\ f7 \notin {0, 32} -> Fatal(m)
          [] f3 = 2 -> Done(IF Signed32(a) < Signed32(b) THEN FromInt(1) ELSE Zero)
          [] f3 = 5 /\ f7 = 0 -> Done(Srl32(a, b.lo % 32))
          [] f3 = 5 /\ f7 # 0 -> Fatal(m)
          [] f3 = 6 -> Done(Or32(a, b))
          [] f3 = 7 -> Done(And32(a, b))
          [] OTHER  -> Fatal(m)

\* ExecIType with every funct3 executed as addi
ExecIType_Lenient(instruction, m) ==
    Through([SetReg(m, rd(instruction),
                    Add32(m.registers[rs1(instruction)], imm_i(instruction)))
             EXCEPT !.pc = m.pc + 1])

\* I-type arithmetic (opcode 0x13): only addi
ExecIType(instruction, m) ==
    IF funct3(instruction) = 0
    THEN Through([SetReg(m, rd(instruction),
                         Add32(m.registers[rs1(instruction)], imm_i(instruction)))
                  EXCEPT !.pc = m.pc + 1])
    ELSE Fatal(m)

\* addr = (self.registers[rs1] + imm) & 0xffffffff
LoadAddr(instruction, m) == Add32(m.registers[rs1(instruction)], imm_i(instruction))
StoreAddr(instruction, m) == Add32(m.registers[rs1(instruction)], imm_s(instruction))

\* LW (opcode 0x03)
ExecLW(instruction, m) ==
    LET mem_idx == Div4(LoadAddr(instruction, m))
    IN  IF funct3(instruction) = 2
        THEN IF mem_idx < 0 \/ mem_idx >= 32
             THEN Fatal(m)
             ELSE Through([SetReg(m, rd(instruction), m.memory[mem_idx])
                           EXCEPT !.pc = m.pc + 1])
        ELSE Fatal(m)

\* JALR (opcode 0x67): rd is written before the target is checked
ExecJALR(instruction, m) ==
    LET sum    == Add32(m.registers[rs1(instruction)], imm_i(instruction))
        \* & 0xfffffffe
        target == Word(sum.hi, sum.lo - (sum.lo % 2))
        ra     == m.pc + 1
        linked == SetReg(m, rd(instruction), FromInt(ra))
        jump_word == Div4(target)
    IN  IF jump_word < 0 \/ jump_word >= 32
        THEN Fatal(linked)
        ELSE Through([linked EXCEPT !.pc = jump_word])

\* ExecSW with the index wrapped into the memory instead of rejected
ExecSW_Wraps(instruction, m) ==
    LET mem_idx == Div4(StoreAddr(instruction, m)) % 32
    IN  IF funct3(instruction) = 2
        THEN Through([m EXCEPT !.memory[mem_idx] = m.registers[rs2(instruction)],
                               !.pc = m.pc + 1])
        ELSE Fatal(m)

\* ExecSW without the write to memory
ExecSW_NoWrite(instruction, m) ==
    LET mem_idx == Div4(StoreAddr(instruction, m))
    IN  IF funct3(instruction) = 2
        THEN IF mem_idx < 0 \/ mem_idx >= 32
             THEN Fatal(m)
             ELSE Through([m EXCEPT !.pc = m.pc + 1])
        ELSE Fatal(m)

\* SW (opcode 0x23)
ExecSW(instruction, m) ==
    LET mem_idx == Div4(StoreAddr(instruction, m))
    IN  IF funct3(instruction) = 2
        THEN IF mem_idx < 0 \/ mem_idx >= 32
             THEN Fatal(m)
             ELSE Through([m EXCEPT !.memory[mem_idx] = m.registers[rs2(instruction)],
                                    !.pc = m.pc + 1])
        ELSE Fatal(m)

\* the virtual halt: beq zero, zero, 0
IsHalt(instruction) ==
    /\ opcode(instruction) = 99
    /\ funct3(instruction) = 0
    /\ rs1(instruction) = 0
    /\ rs2(instruction) = 0
    /\ imm_b(instruction) = Zero

\* ExecBType with the halt falling through to the PC increment
ExecBType_HaltAdvances(instruction, m) ==
    LET offset == imm_b(instruction)
        f3 == funct3(instruction)
        taken == IF f3 = 0
                 THEN m.registers[rs1(instruction)] = m.registers[rs2(instruction)]
                 ELSE m.registers[rs1(instruction)] # m.registers[rs2(instruction)]
    IN  IF f3 = 0 /\ rs1(instruction) = 0 /\ rs2(instruction) = 0 /\ offset = Zero
        THEN Outcome(TRUE, FALSE, [m EXCEPT !.halted = TRUE, !.pc = m.pc + 1])
        ELSE IF f3 \notin {0, 1}
        THEN Fatal(m)
        ELSE IF taken
        THEN Through([m EXCEPT !.pc = m.pc + Div4(offset)])
        ELSE Through([m EXCEPT !.pc = m.pc + 1])

\* B-type (opcode 0x63)
ExecBType(instruction, m) ==
    LET offset == imm_b(instruction)
        f3 == funct3(instruction)
        a  == m.registers[rs1(instruction)]
        b  == m.registers[rs2(instruction)]
        taken == IF f3 = 0 THEN a = b ELSE a # b
    IN  IF f3 = 0 /\ rs1(instruction) = 0 /\ rs2(instruction) = 0 /\ offset = Zero
        THEN Outcome(TRUE, FALSE, [m EXCEPT !.halted = TRUE])
        ELSE IF f3 \notin {0, 1}
        THEN Fatal(m)
        ELSE IF taken
        THEN Through([m EXCEPT !.pc = m.pc + Div4(offset)])
        ELSE Through([m EXCEPT !.pc = m.pc + 1])

\* ExecJAL with the link also written to x1 (ra) whatever rd is
ExecJAL_AlsoRa(instruction, m) ==
    LET offset == imm_j(instruction)
        ra == m.pc + 1
    IN  Through([SetReg(SetReg(m, 1, FromInt(ra)), rd(instruction), FromInt(ra))
                 EXCEPT !.pc = m.pc + Div4(offset)])

\* JAL (opcode 0x6f)
ExecJAL(instruction, m) ==
    LET offset == imm_j(instruction)
        ra == m.pc + 1
    IN  Through([SetReg(m, rd(instruction), FromInt(ra))
                 EXCEPT !.pc = m.pc + Div4(offset)])

Dispatch(instruction, m) ==
    LET op == opcode(instruction)
    IN  CASE op = 51  -> ExecRType(instruction, m)
          [] op = 19  -> ExecIType(instruction, m)
          [] op = 3   -> ExecLW(instruction, m)
          [] op = 103 -> ExecJALR(instruction, m)
          [] op = 35  -> ExecSW(instruction, m)
          [] op = 99  -> ExecBType(instruction, m)
          [] op = 111 -> ExecJAL(instruction, m)
          [] OTHER    -> Fatal(m)

\* the common tail: self.registers[0] = 0; return True
ZeroX0(m) == SetReg(m, 0, Zero)

execute_instruction(instruction, m) ==
    LET r == Dispatch(instruction, m)
    IN  IF r.fall THEN [ok |-> TRUE, m |-> ZeroX0(r.m)]
        ELSE [ok |-> r.ok, m |-> r.m]

\* ------------------------------------------------------- text lines
\* bin(n)[2:] for n >= 0
RECURSIVE Bin(_)
Bin(n) == IF n < 2 THEN <<n>> ELSE Bin(n \div 2) \o <<n % 2>>

\* str.zfill(w)
ZFill(s, w) == IF Len(s) >= w THEN s ELSE [i \in 1..(w - Len(s)) |-> 0] \o s

\* int(s, 2) for a string of '0'/'1' shorter than 31 characters
RECURSIVE BitsValue(_)
BitsValue(s) ==
    IF s = <<>> THEN 0 ELSE 2 * BitsValue(SubSeq(s, 1, Len(s) - 1)) + s[Len(s)]

\* format(n, '032b') for a plain integer 0 <= n < 2^31
FormatInt032b(n) == ZFill(Bin(n), 32)

\* format(w & 0xffffffff, '032b') for a word
Format032b(w) == ZFill(Bin(w.hi % Half), 16) \o ZFill(Bin(w.lo), 16)

\* int(line, 2) for a line of 32 characters '0'/'1'
ParseLine(line) == Word(BitsValue(SubSeq(line, 1, 16)), BitsValue(SubSeq(line, 17, 32)))

\* ------------------------------------------------------- load_program
\* lines: the stripped lines of the image file; a character is 0, 1 or
\* anything else (on which int(line, 2) raises ValueError).
RECURSIVE LoadLines(_, _, _)
LoadLines(lines, i, mem) ==
    IF lines = <<>> THEN [ok |-> TRUE, memory |-> mem]
    ELSE LET line == Head(lines)
         IN  IF line = <<>> THEN LoadLines(Tail(lines), i, mem)
             ELSE IF Len(line) # 32 THEN [ok |-> FALSE, memory |-> mem]
             ELSE IF i >= 32 THEN [ok |-> FALSE, memory |-> mem]
             ELSE IF \E k \in 1..32 : line[k] \notin {0, 1}
                  THEN [ok |-> FALSE, memory |-> mem]
             ELSE LoadLines(Tail(lines), i + 1, [mem EXCEPT ![i] = ParseLine(line)])

load_program(lines, mem) == LoadLines(lines, 0, mem)

\* ---------------------------------------------------------- the trace
\* pc_bin + " " + " ".join(regs_bin): the 33 space-separated fields
write_trace_line(p, regs) ==
    <<FormatInt032b(p * 4)>> \o [r \in 1..NumRegs |-> Format032b(regs[r - 1])]

\* write_memory_dump with the words written from the last to the first
write_memory_dump_Reversed(mem) ==
    [k \in 1..NumWords |-> <<Format032b(mem[NumWords - k])>>]

\* one line per memory word, in index order
write_memory_dump(mem) == [k \in 1..NumWords |-> <<Format032b(mem[k - 1])>>]

\* ============================================================ Assembler.py
\* A token of a source line (an element of `data`): a literal integer
\* string, on which int() succeeds, or any other string.
Lit(n) == [lit |-> TRUE, n |-> n, s |-> ""]
Sym(s) == [lit |-> FALSE, n |-> 0, s |-> s]
\* data[k] with Python's 0-based index
Tok(data, k) == data[k + 1]

\* Python slices with negative indices: s[a:b], s[a:], s[a]
SliceNeg(s, a, b) == SubSeq(s, Len(s) + a + 1, Len(s) + b)
TailNeg(s, a) == SubSeq(s, Len(s) + a + 1, Len(s))
AtNeg(s, a) == s[Len(s) + a + 1]

\* the range test of Binary_convertor; outside it the assembler exits
ImmInRange(a) == -2147483647 - 1 <= a /\ a <= 2147483647

\* Binary_convertor(a, b) for an accepted a: bin((1 << b) + a)[2:] for a < 0
\* (with b = 32 the sum is 2^31 + (2^31 + a), a leading 1 and 31 more bits),
\* bin(a)[2:] otherwise, zero-filled to b characters
Binary_convertor(a, b) ==
    LET binary_representation ==
            IF a < 0
            THEN IF b = 32
                 THEN <<1>> \o ZFill(Bin((a + 2147483647) + 1), 31)
                 ELSE Bin(Pow2(b) + a)
            ELSE Bin(a)
    IN  ZFill(binary_representation, b)

\* what reg_add returns for a name it does not know (Python's None, after
\* printing "error : invalid register"): no string of bits
None == <<-1>>

RegisterNames ==
    << "zero", "ra", "sp", "gp", "tp", "t0", "t1", "t2", "s0", "s1",
       "a0", "a1", "a2", "a3", "a4", "a5", "a6", "a7",
       "s2", "s3", "s4", "s5", "s6", "s7", "s8", "s9", "s10", "s11",
       "t3", "t4", "t5", "t6" >>

reg_add(register) ==
    IF register.lit THEN None
    ELSE IF register.s = "fp" THEN Binary_convertor(8, 5)
    ELSE IF \E k \in 1..32 : RegisterNames[k] = register.s
         THEN Binary_convertor((CHOOSE k \in 1..32 : RegisterNames[k] = register.s) - 1, 5)
         ELSE None

\* the result of an encoder: the list ans, or the run aborted (exit() in
\* Binary_convertor, or an exception)
Encoded(ans) == [abort |-> FALSE, ans |-> ans]
Aborted == [abort |-> TRUE, ans |-> <<>>]

\* Binary_convertor(tok, 32) returns: int(a) raises on a string that is no
\* integer, and an integer out of range makes the assembler exit
ImmOk(tok) == tok.lit /\ ImmInRange(tok.n)
Binr(tok) == Binary_convertor(tok.n, 32)
\* ans, once every Binary_convertor call of the branch has returned
WithImm(tok, ans) == IF ImmOk(tok) THEN Encoded(ans) ELSE Aborted

\* funct3 and funct7 of the R-type mnemonics
RFunct ==
    [ add  |-> <<<<0,0,0>>, <<0,0,0,0,0,0,0>>>>,
      sub  |-> <<<<0,0,0>>, <<0,1,0,0,0,0,0>>>>,
      sll  |-> <<<<0,0,1>>, <<0,0,0,0,0,0,0>>>>,
      slt  |-> <<<<0,1,0>>, <<0,0,0,0,0,0,0>>>>,
      sltu |-> <<<<0,1,1>>, <<0,0,0,0,0,0,0>>>>,
      xor  |-> <<<<1,0,0>>, <<0,0,0,0,0,0,0>>>>,
      srl  |-> <<<<1,0,1>>, <<0,0,0,0,0,0,0>>>>,
      or   |-> <<<<1,1,0>>, <<0,0,0,0,0,0,0>>>>,
      and  |-> <<<<1,1,1>>, <<0,0,0,0,0,0,0>>>> ]

r_type(data, i) ==
    LET m == Tok(data, 0).s
    IN  IF m \in DOMAIN RFunct
        THEN Encoded(<< <<0,1,1,0,0,1,1>>, reg_add(Tok(data, 1)), RFunct[m][1],
                        reg_add(Tok(data, 2)), reg_add(Tok(data, 3)), RFunct[m][2] >>)
        ELSE Encoded(<<>>)

i_type(data, i) ==
    LET m == Tok(data, 0).s
    IN  CASE m = "lw" ->
               WithImm(Tok(data, 2),
                   << <<0,0,0,0,0,1,1>>, reg_add(Tok(data, 1)), <<0,1,0>>,
                      reg_add(Tok(data, 3)), TailNeg(Binr(Tok(data, 2)), -12) >>)
          [] m = "addi" ->
               WithImm(Tok(data, 3),
                   << <<0,0,1,0,0,1,1>>, reg_add(Tok(data, 1)), <<0,0,0>>,
                      reg_add(Tok(data, 2)), TailNeg(Binr(Tok(data, 3)), -12) >>)
          [] m = "sltiu" ->
               WithImm(Tok(data, 3),
                   << <<0,0,1,0,0,1,1>>, reg_add(Tok(data, 1)), <<0,1,1>>,
                      reg_add(Tok(data, 2)), TailNeg(Binr(Tok(data, 3)), -12) >>)
          [] m = "jalr" ->
               WithImm(Tok(data, 3),
                   << <<1,1,0,0,1,1,1>>, reg_add(Tok(data, 1)), <<0,0,0>>,
                      reg_add(Tok(data, 2)), TailNeg(Binr(Tok(data, 3)), -12) >>)
          [] OTHER -> Encoded(<<>>)

s_type(data, i) ==
    IF Tok(data, 0).s = "sw"
    THEN WithImm(Tok(data, 2),
             << <<0,1,0,0,0,1,1>>, TailNeg(Binr(Tok(data, 2)), -5), <<0,1,0>>,
                reg_add(Tok(data, 3)), reg_add(Tok(data, 1)), SliceNeg(Binr(Tok(data, 2)), -12, -5) >>)
    ELSE Encoded(<<>>)

BFunct3 ==
    [ beq |-> <<0,0,0>>, bne |-> <<0,0,1>>, blt |-> <<1,0,0>>,
      bge |-> <<1,0,1>>, bltu |-> <<1,1,0>>, bgeu |-> <<1,1,1>> ]

\* an operand that int() rejects is a label: (label_dict.get(x) - i) * 4;
\* a label that is not in the table makes the subtraction raise
Resolve(tok, label_dict, i) ==
    IF tok.lit THEN tok
    ELSE IF tok.s \in DOMAIN label_dict THEN Lit((label_dict[tok.s] - i) * 4)
    ELSE Sym(tok.s)

b_type(data, i, label_dict) ==
    LET m == Tok(data, 0).s
    IN  IF m \in DOMAIN BFunct3
        THEN WithImm(Resolve(Tok(data, 3), label_dict, i),
                 << <<1,1,0,0,0,1,1>>,
                    SliceNeg(Binr(Resolve(Tok(data, 3), label_dict, i)), -5, -1) \o <<AtNeg(Binr(Resolve(Tok(data, 3), label_dict, i)), -12)>>,
                    BFunct3[m], reg_add(Tok(data, 1)), reg_add(Tok(data, 2)),
                    <<AtNeg(Binr(Resolve(Tok(data, 3), label_dict, i)), -13)>> \o SliceNeg(Binr(Resolve(Tok(data, 3), label_dict, i)), -11, -5) >>)
        ELSE Encoded(<<>>)

\* the flag `check`: a beq zero, zero, 0 was assembled
IsVirtualHalt(data) ==
    /\ Len(data) >= 4
    /\ Tok(data, 0) = Sym("beq")
    /\ Tok(data, 1) = Sym("zero")
    /\ Tok(data, 2) = Sym("zero")
    /\ Tok(data, 3) = Lit(0)

u_type(data, i) ==
    LET m == Tok(data, 0).s
    IN  CASE m = "lui" ->
               WithImm(Tok(data, 2),
                   << <<0,1,1,0,1,1,1>>, reg_add(Tok(data, 1)), SliceNeg(Binr(Tok(data, 2)), -32, -12) >>)
          [] m = "auipc" ->
               WithImm(Tok(data, 2),
                   << <<0,0,1,0,1,1,1>>, reg_add(Tok(data, 1)), SliceNeg(Binr(Tok(data, 2)), -32, -12) >>)
          [] OTHER -> Encoded(<<>>)

j_type(data, i, label_dict) ==
    LET tok == Resolve(Tok(data, 2), label_dict, i)
        offset == tok.n
        \* format(.., '021b'): a negative number prints its sign (character 2)
        imm_21 == IF offset < 0
                  THEN IF 2097152 + offset >= 0
                       THEN ZFill(Bin(2097152 + offset), 21)
                       ELSE <<2>> \o ZFill(Bin(-(2097152 + offset)), 20)
                  ELSE ZFill(Bin(offset), 21)
        encoded_imm == <<imm_21[1]>> \o SubSeq(imm_21, 11, 20)
                       \o <<imm_21[10]>> \o SubSeq(imm_21, 2, 9)
    IN  IF Tok(data, 0).s = "jal"
        THEN IF ~tok.lit THEN Aborted
             ELSE Encoded(<< <<1,1,0,1,1,1,1>>, reg_add(Tok(data, 1)), encoded_imm >>)
        ELSE Encoded(<<>>)

\* switch_dict.get(case_value, default_case)(data, i); default_case
\* returns None, which the caller's `while l` treats as an empty list
Encode(data, i, label_dict) ==
    LET m == Tok(data, 0).s
    IN  CASE m \in DOMAIN RFunct -> r_type(data, i)
          [] m \in {"lw", "addi", "sltiu", "jalr"} -> i_type(data, i)
          [] m = "sw" -> s_type(data, i)
          [] m \in DOMAIN BFunct3 -> b_type(data, i, label_dict)
          [] m \in {"lui", "auipc"} -> u_type(data, i)
          [] m = "jal" -> j_type(data, i, label_dict)
          [] OTHER -> Encoded(<<>>)

\* s += l.pop() until l is empty: the fields in reverse order
RECURSIVE JoinReversed(_)
JoinReversed(l) ==
    IF l = <<>> THEN <<>>
    ELSE l[Len(l)] \o JoinReversed(SubSeq(l, 1, Len(l) - 1))

\* Switch_case: the line appended to the output file; concatenating None
\* to a string raises and ends the run
Switch_case(data, i, label_dict) ==
    LET l == Encode(data, i, label_dict)
    IN  IF l.abort THEN [abort |-> TRUE, line |-> <<>>]
        ELSE IF \E k \in 1..Len(l.ans) : l.ans[k] = None
             THEN [abort |-> TRUE, line |-> <<>>]
             ELSE [abort |-> FALSE, line |-> JoinReversed(l.ans)]

\* A source line: blank (only whitespace); label is <<>> (no ':' in the
\* line) or <<text>>, text the pieces of the text before the first ':',
\* each a run of whitespace or of other characters; data the tokens of the
\* rest of the line.
SrcLine(label, data) == [blank |-> FALSE, label |-> label, data |-> data]
BlankLine == [blank |-> TRUE, label |-> <<>>, data |-> <<>>]
\* an instruction line without a label
Ins(data) == SrcLine(<<>>, data)

\* str.strip(): the text without the whitespace at its two ends
IsSpace(piece) == piece \in {" ", "\t"}
RECURSIVE LStrip(_)
LStrip(text) ==
    IF text # <<>> /\ IsSpace(Head(text)) THEN LStrip(Tail(text)) ELSE text
RECURSIVE RStrip(_)
RStrip(text) ==
    IF text # <<>> /\ IsSpace(text[Len(text)])
    THEN RStrip(SubSeq(text, 1, Len(text) - 1)) ELSE text
RECURSIVE Join(_)
Join(text) == IF text = <<>> THEN "" ELSE Head(text) \o Join(Tail(text))
Strip(text) == Join(RStrip(LStrip(text)))

\* Pass1Step with a label that is already in the table left as it is
Pass1Step_FirstWins(st, line) ==
    IF line.blank THEN st
    ELSE LET i == st.i + 1
             label == Strip(line.label[1])
         IN  IF line.label # <<>>
             THEN [i |-> i,
                   label_dict |-> [l \in DOMAIN st.label_dict \cup {label} |->
                                     IF l \in DOMAIN st.label_dict
                                     THEN st.label_dict[l] ELSE i]]
             ELSE [st EXCEPT !.i = i]

\* pass 1: one line
Pass1Step(st, line) ==
    IF line.blank THEN st
    ELSE LET i == st.i + 1
             label == Strip(line.label[1])
         IN  IF line.label # <<>>
             THEN [i |-> i,
                   label_dict |-> [l \in DOMAIN st.label_dict \cup {label} |->
                                     IF l = label THEN i ELSE st.label_dict[l]]]
             ELSE [st EXCEPT !.i = i]

RECURSIVE Pass1From(_, _)
Pass1From(st, source) ==
    IF source = <<>> THEN st
    ELSE Pass1From(Pass1Step(st, Head(source)), Tail(source))

EmptyDict == [l \in {} |-> 0]
Pass1(source) == Pass1From([i |-> -1, label_dict |-> EmptyDict], source).label_dict

\* pass 2: one line; st.out is the output file, st.check the halt flag
Pass2Step(st, line, label_dict) ==
    IF st.abort \/ line.blank THEN st
    ELSE LET i == st.i + 1
         IN  IF line.data = <<>> THEN [st EXCEPT !.i = i]
             ELSE LET r == Switch_case(line.data, i, label_dict)
                  IN  [i |-> i,
                       out |-> IF r.abort THEN st.out ELSE Append(st.out, r.line),
                       abort |-> r.abort,
                       check |-> st.check \/ (Tok(line.data, 0).s \in DOMAIN BFunct3
                                              /\ IsVirtualHalt(line.data))]

RECURSIVE Pass2From(_, _, _)
Pass2From(st, source, label_dict) ==
    IF source = <<>> THEN st
    ELSE Pass2From(Pass2Step(st, Head(source), label_dict), Tail(source), label_dict)

\* the whole run on one source file
Assemble(source) ==
    Pass2From([i |-> -1, out |-> <<>>, abort |-> FALSE, check |-> FALSE],
              source, Pass1(source))

\* ------------------------------------------------------------ inputs
\* Instruction words by their RV32I field layout.
EncR(f7, r2, r1, f3, d, op) ==
    Word(f7 * 512 + r2 * 16 + (r1 \div 2),
         (r1 % 2) * 32768 + f3 * 4096 + d * 128 + op)
EncI(imm, r1, f3, d, op) ==
    EncR((imm % 4096) \div 32, (imm % 4096) % 32, r1, f3, d, op)
EncS(imm, r2, r1, f3, op) ==
    EncR((imm % 4096) \div 32, r2, r1, f3, (imm % 4096) % 32, op)
EncB(off, r2, r1, f3) ==
    LET o == off % 8192
    IN  EncR(((o \div 4096) % 2) * 64 + ((o \div 32) % 64), r2, r1, f3,
             ((o \div 2) % 16) * 2 + ((o \div 2048) % 2), 99)
EncJ(off, d) ==
    LET o == off % 2097152
        field == ((o \div 1048576) % 2) * 524288 + ((o \div 2) % 1024) * 512
                 + ((o \div 2048) % 2) * 256 + ((o \div 4096) % 256)
    IN  Word(field \div 16, (field % 16) * 4096 + d * 128 + 111)

HaltWord == EncB(0, 0, 0, 0)
Bump == EncI(4, 1, 0, 1, 19)                 \* addi x1, x1, 4

Pool ==
    { EncI(5, 0, 0, 1, 19),                  \* addi x1, x0, 5
      EncI(-4, 0, 0, 2, 19),                 \* addi x2, x0, -4
      EncI(7, 0, 0, 0, 19),                  \* addi x0, x0, 7
      Bump,
      EncI(1, 0, 1, 1, 19),                  \* opcode 0x13, funct3 = 1
      EncI(4, 1, 2, 3, 3),                   \* lw x3, 4(x1)
      EncI(0, 2, 2, 3, 3),                   \* lw x3, 0(x2)
      EncI(0, 0, 0, 3, 3),                   \* opcode 0x03, funct3 = 0
      EncS(8, 1, 2, 2, 35),                  \* sw x1, 8(x2)
      EncS(2, 2, 1, 2, 35),                  \* sw x2, 2(x1)
      EncS(0, 1, 2, 2, 35),                  \* sw x1, 0(x2)
      EncS(0, 1, 0, 1, 35),                  \* opcode 0x23, funct3 = 1
      EncI(128, 0, 0, 0, 103),               \* jalr x0, x0, 128
      EncI(128, 0, 0, 5, 103),               \* jalr x5, x0, 128
      EncI(8, 0, 0, 5, 103),                 \* jalr x5, x0, 8
      EncI(0, 0, 0, 0, 103),                 \* jalr x0, x0, 0
      EncI(3, 1, 0, 0, 103),                 \* jalr x0, x1, 3
      EncJ(8, 6),                            \* jal x6, +8
      EncJ(4, 0),                            \* jal x0, +4
      EncJ(-4, 6),                           \* jal x6, -4
      EncB(8, 0, 1, 0),                      \* beq x1, x0, +8
      EncB(-4, 0, 1, 0),                     \* beq x1, x0, -4
      EncB(8, 0, 1, 1),                      \* bne x1, x0, +8
      EncB(-4, 0, 1, 1),                     \* bne x1, x0, -4
      EncB(4, 0, 0, 0),                      \* beq x0, x0, +4
      EncB(8, 0, 1, 4),                      \* blt x1, x0, +8
      EncB(8, 0, 1, 5),                      \* bge x1, x0, +8
      EncB(-4, 1, 0, 6),                     \* bltu x0, x1, -4
      EncB(8, 0, 0, 7),                      \* bgeu x0, x0, +8
      EncR(0, 2, 1, 0, 4, 51),               \* add x4, x1, x2
      EncR(32, 1, 2, 0, 4, 51),              \* sub x4, x2, x1
      EncR(1, 2, 1, 0, 4, 51),               \* funct3 = 0, funct7 = 1
      EncR(0, 1, 2, 2, 4, 51),               \* slt x4, x2, x1
      EncR(0, 1, 2, 5, 4, 51),               \* srl x4, x2, x1
      EncR(32, 1, 2, 5, 4, 51),              \* funct3 = 5, funct7 = 0x20
      EncR(0, 2, 1, 6, 4, 51),               \* or x4, x1, x2
      EncR(0, 2, 1, 7, 0, 51),               \* and x0, x1, x2
      EncR(0, 2, 1, 1, 4, 51),               \* sll (funct3 = 1)
      EncR(0, 2, 1, 3, 4, 51),               \* sltu (funct3 = 3)
      EncR(0, 2, 1, 4, 0, 51),               \* xor (funct3 = 4)
      EncR(0, 0, 0, 0, 1, 23),               \* auipc (opcode 0x17)
      EncR(0, 0, 0, 0, 1, 55),               \* lui (opcode 0x37)
      HaltWord }

Chain(k) == [i \in 1..k |-> Bump] \o <<HaltWord>>

Programs ==
    { <<a, b, HaltWord>> : a \in Pool, b \in Pool }
    \cup { Chain(k) : k \in 0..max_instructions }
    \cup { \* a backward jump as the max_instructions-th instruction
           [i \in 1..(max_instructions - 1) |-> Bump] \o <<EncJ(-4, 6)>> }
    \cup { \* a store into a program word that is executed later
           <<EncI(-4, 0, 0, 2, 19), EncS(16, 2, 2, 2, 35), Bump, Bump, Bump>>,
           \* a store that turns an unknown word into the halt word
           <<EncI(99, 0, 0, 1, 19), EncS(12, 1, 0, 2, 35), Bump,
             EncR(0, 0, 0, 0, 1, 55)>>,
           \* a loop closed by jalr
           <<Bump, EncR(0, 1, 1, 0, 4, 51), EncI(0, 0, 0, 0, 103)>>,
           \* a call and its return
           <<EncJ(8, 5), HaltWord, Bump, EncI(0, 5, 0, 0, 103)>> }

\* the image file of a program: one 32-character line per word
ImageOf(prog) == [i \in 1..Len(prog) |-> Format032b(prog[i])]

\* a non-terminating program: a two-instruction loop body closed by an
\* always-taken backward bne to the earlier label
LoopSource ==
    << SrcLine(<<>>, <<Sym("addi"), Sym("t0"), Sym("zero"), Lit(1)>>),
       SrcLine(<<<<"loop">>>>, <<Sym("addi"), Sym("t1"), Sym("t1"), Lit(1)>>),
       SrcLine(<<>>, <<Sym("addi"), Sym("t2"), Sym("t2"), Lit(1)>>),
       SrcLine(<<>>, <<Sym("bne"), Sym("t0"), Sym("zero"), Sym("loop")>>),
       SrcLine(<<>>, <<Sym("beq"), Sym("zero"), Sym("zero"), Lit(0)>>) >>

\* scenario 1 of the spec
Scenario1Source ==
    << SrcLine(<<>>, <<Sym("addi"), Sym("a0"), Sym("zero"), Lit(5)>>),
       SrcLine(<<>>, <<Sym("beq"), Sym("zero"), Sym("zero"), Lit(0)>>) >>

\* assembled programs: the loop, scenario 1 of the spec, a backward beq,
\* a bge (encodable, not implemented by the engine), a forward branch to a
\* label
Sources ==
    { LoopSource,
      Scenario1Source,
      << SrcLine(<<<<"top">>>>, <<Sym("addi"), Sym("t1"), Sym("t1"), Lit(1)>>),
         BlankLine,
         SrcLine(<<>>, <<Sym("beq"), Sym("zero"), Sym("zero"), Sym("top")>>) >>,
      << Ins(<<Sym("addi"), Sym("t0"), Sym("zero"), Lit(-3)>>),
         Ins(<<Sym("bge"), Sym("zero"), Sym("t0"), Lit(8)>>),
         Ins(<<Sym("beq"), Sym("zero"), Sym("zero"), Lit(0)>>) >>,
      << SrcLine(<<>>, <<Sym("beq"), Sym("t1"), Sym("zero"), Sym("end")>>),
         SrcLine(<<>>, <<Sym("addi"), Sym("t1"), Sym("t1"), Lit(1)>>),
         SrcLine(<<<<"end", " ">>>>, <<Sym("beq"), Sym("zero"), Sym("zero"), Lit(0)>>) >> }

LoopImage == Assemble(LoopSource).out

Images ==
    { ImageOf(prog) : prog \in Programs }
    \cup { Assemble(src).out : src \in Sources }
    \cup { <<<<>>, ImageOf(<<Bump>>)[1], <<>>, ImageOf(<<HaltWord>>)[1]>>,
           <<ImageOf(<<Bump>>)[1], <<1, 0, 1>>>>,
           <<[k \in 1..32 |-> IF k = 7 THEN 2 ELSE 0]>>,
           [i \in 1..(NumWords + 1) |-> ImageOf(<<HaltWord>>)[1]] }

\* ------------------------------------------------ assembler inputs
AllRegs == { RegisterNames[k] : k \in 1..32 } \cup {"fp"}

\* literal operands: the 12-bit range, and a sample of the 21-bit range
\* (the extremes, every power of two and its neighbours, both signs)
Imm12 == -2048..2047
Imm21 ==
    { -1048576, -1048575, 1048574, 1048575 }
    \cup { 2 ^ k + d : k \in 0..19, d \in {-1, 0, 1} }
    \cup { -(2 ^ k) + d : k \in 0..19, d \in {-1, 0, 1} }
    \cup (-12..12)

BranchSources ==
    { <<Ins(<<Sym(m), Sym(a), Sym("t1"), Lit(o)>>)>> :
          m \in DOMAIN BFunct3, a \in AllRegs, o \in {-2048, 2046} }
    \cup { <<Ins(<<Sym(m), Sym("s1"), Sym(b), Lit(o)>>)>> :
          m \in DOMAIN BFunct3, b \in AllRegs, o \in {-2, 1364} }
    \cup { <<Ins(<<Sym("bne"), Sym("t0"), Sym("s1"), Lit(o)>>)>> : o \in Imm12 }

JumpSources ==
    { <<Ins(<<Sym("jal"), Sym(a), Lit(o)>>)>> :
          a \in AllRegs, o \in {-1048576, 699050} }
    \cup { <<Ins(<<Sym("jal"), Sym("ra"), Lit(o)>>)>> : o \in Imm21 }

\* lw rd, imm(rs1) / addi, sltiu, jalr rd, rs1, imm / sw rs2, imm(rs1)
ImmSources ==
    { <<Ins(<<Sym("lw"), Sym(a), Lit(o), Sym(b)>>)>> :
          a \in AllRegs, b \in {"sp", "t6"}, o \in {-2048, 1365} }
    \cup { <<Ins(<<Sym(m), Sym(a), Sym(b), Lit(o)>>)>> :
          m \in {"addi", "sltiu", "jalr"}, a \in {"a0", "t6"}, b \in AllRegs,
          o \in {-1, 2047} }
    \cup { <<Ins(<<Sym("sw"), Sym(a), Lit(o), Sym(b)>>)>> :
          a \in AllRegs, b \in {"zero", "s11"}, o \in {-1366, 2047} }
    \cup { <<Ins(<<Sym("sw"), Sym("a1"), Lit(o), Sym(b)>>)>> :
          b \in AllRegs, o \in {-2048, 31} }
    \cup { <<Ins(<<Sym("addi"), Sym("a0"), Sym("sp"), Lit(o)>>)>> : o \in Imm12 }
    \cup { <<Ins(<<Sym("sw"), Sym("a0"), Lit(o), Sym("sp")>>)>> : o \in Imm12 }
    \cup { <<Ins(<<Sym(m), Sym("a0"), Sym("sp"), Lit(o)>>)>> :
          m \in {"sltiu", "jalr"}, o \in Imm21 \cap Imm12 }
    \cup { <<Ins(<<Sym("lw"), Sym("a0"), Lit(o), Sym("sp")>>)>> :
          o \in Imm21 \cap Imm12 }

\* the kinds of line of a source file
LineKinds ==
    { BlankLine,
      SrcLine(<<<<"top">>>>, <<>>),
      SrcLine(<<<<" ", "top", "\t">>>>, <<Sym("addi"), Sym("t1"), Sym("t1"), Lit(1)>>),
      SrcLine(<<<<"end", " ">>>>, <<Sym("sub"), Sym("t2"), Sym("t1"), Sym("t0")>>),
      Ins(<<Sym("bne"), Sym("t1"), Sym("zero"), Sym("top")>>),
      Ins(<<Sym("jal"), Sym("ra"), Sym("end")>>),
      Ins(<<Sym("add"), Sym("t0"), Sym("x5"), Sym("t1")>>),
      Ins(<<Sym("mul"), Sym("t0"), Sym("t0"), Sym("t1")>>),
      Ins(<<Sym("beq"), Sym("zero"), Sym("zero"), Lit(0)>>) }

MaxLines == 3

LineSources ==
    UNION { [1..n -> LineKinds] : n \in 0..MaxLines }

\* an operand that is no register name where a register is expected,
\* followed by a line that is in order
BadRegLines ==
    { <<Sym("addi"), Sym("x5"), Sym("zero"), Lit(1)>>,
      <<Sym("lw"), Sym("a0"), Lit(4), Lit(2)>>,
      <<Sym("sw"), Sym("r1"), Lit(0), Sym("sp")>>,
      <<Sym("bne"), Sym("t0"), Sym("T1"), Lit(8)>>,
      <<Sym("jal"), Sym("x1"), Lit(8)>>,
      <<Sym("lui"), Sym("a8"), Lit(1)>>,
      <<Sym("sub"), Sym("t0"), Sym("t1"), Lit(3)>> }

BadRegSources ==
    { <<Ins(d), Ins(<<Sym("addi"), Sym("t1"), Sym("zero"), Lit(2)>>)>> :
          d \in BadRegLines }

AsmSources ==
    BranchSources \cup JumpSources \cup ImmSources \cup LineSources
    \cup BadRegSources \cup Sources

\* ----------------------------------------------------------- actions
\* RISCVSimulator.__init__
SimInit ==
    /\ memory = [i \in 0..(NumWords - 1) |-> Zero]
    /\ registers = [i \in 0..(NumRegs - 1) |-> Zero]
    /\ pc = 0
    /\ halted = FALSE
    /\ instr_count = 0
    /\ trace = <<>>
    /\ phase = "constructed"
    /\ outcome = "none"

\* the assembler before its run: i = -1, label_dict = {}, check = 0
AsmIdle ==
    [pass |-> "idle", pos |-> 0, i |-> -1, label_dict |-> EmptyDict,
     out |-> <<>>, check |-> FALSE]

\* a run of the simulator alone: the assembler is not run
Init ==
    /\ SimInit
    /\ input_file = <<>>
    /\ asm = AsmIdle

\* main: load_program, then execute_program opens the (empty) trace file
LoadProgram ==
    /\ phase = "constructed"
    /\ \E img \in Images :
          LET r == load_program(img, memory)
          IN  /\ memory' = r.memory
              /\ phase' = IF r.ok THEN "running" ELSE "done"
              /\ outcome' = IF r.ok THEN "none" ELSE "load_error"
    /\ UNCHANGED <<registers, pc, halted, instr_count, trace>>
    /\ UNCHANGED asmvars

\* the loop condition of execute_program
Looping == ~halted /\ instr_count < max_instructions

\* PCOutOfRange with the index wrapped into the memory instead of rejected
PCOutOfRange_Wraps ==
    /\ phase = "running"
    /\ Looping
    /\ (pc < 0 \/ pc >= 32)
    /\ pc' = pc % 32
    /\ UNCHANGED <<memory, registers, halted, instr_count, trace, phase, outcome>>
    /\ UNCHANGED asmvars

\* a cycle that finds the PC out of range
PCOutOfRange ==
    /\ phase = "running"
    /\ Looping
    /\ (pc < 0 \/ pc >= 32)
    /\ phase' = "done"
    /\ outcome' = "pc_error"
    /\ UNCHANGED <<memory, registers, pc, halted, instr_count, trace>>
    /\ UNCHANGED asmvars

\* one cycle: fetch, trace line, execute_instruction, count
Cycle ==
    /\ phase = "running"
    /\ Looping
    /\ ~(pc < 0 \/ pc >= 32)
    /\ LET instruction == memory[pc]
           r == execute_instruction(instruction,
                                    Machine(registers, memory, pc, halted))
       IN  /\ trace' = Append(trace, write_trace_line(pc, registers))
           /\ registers' = r.m.registers
           /\ memory' = r.m.memory
           /\ pc' = r.m.pc
           /\ halted' = r.m.halted
           /\ IF r.ok
              THEN /\ instr_count' = instr_count + 1
                   /\ UNCHANGED <<phase, outcome>>
              ELSE /\ phase' = "done"
                   /\ outcome' = "instr_error"
                   /\ UNCHANGED instr_count
    /\ UNCHANGED asmvars

\* after the loop: the budget test
BudgetExceeded ==
    /\ phase = "running"
    /\ ~Looping
    /\ instr_count >= max_instructions
    /\ phase' = "done"
    /\ outcome' = "budget"
    /\ UNCHANGED <<memory, registers, pc, halted, instr_count, trace>>
    /\ UNCHANGED asmvars

\* after the loop: the memory dump and the successful return
MemoryDump ==
    /\ phase = "running"
    /\ ~Looping
    /\ ~(instr_count >= max_instructions)
    /\ trace' = trace \o write_memory_dump(memory)
    /\ phase' = "done"
    /\ outcome' = "success"
    /\ UNCHANGED <<memory, registers, pc, halted, instr_count>>
    /\ UNCHANGED asmvars

Next ==
    \/ LoadProgram
    \/ PCOutOfRange
    \/ Cycle
    \/ BudgetExceeded
    \/ MemoryDump

Spec == Init /\ [][Next]_vars

\* ------------------------------------------- the assembler, line by line
\* pass 1 reads one line (readline, the blank test, i = i + 1, the label)
Pass1Line ==
    /\ asm.pass = "pass1"
    /\ asm.pos < Len(input_file)
    /\ LET st == Pass1Step([i |-> asm.i, label_dict |-> asm.label_dict],
                           input_file[asm.pos + 1])
       IN  asm' = [asm EXCEPT !.pos = asm.pos + 1, !.i = st.i,
                              !.label_dict = st.label_dict]
    /\ UNCHANGED <<input_file, simvars>>

\* readline returns '' : break, input_file.seek(0), i = -1
Rewind ==
    /\ asm.pass = "pass1"
    /\ asm.pos = Len(input_file)
    /\ asm' = [asm EXCEPT !.pass = "pass2", !.pos = 0, !.i = -1]
    /\ UNCHANGED <<input_file, simvars>>

\* pass 2 reads one line and encodes it; an exit() or an exception raised
\* under Switch_case ends the process
Pass2Line ==
    /\ asm.pass = "pass2"
    /\ asm.pos < Len(input_file)
    /\ LET st == Pass2Step([i |-> asm.i, out |-> asm.out, abort |-> FALSE,
                            check |-> asm.check],
                           input_file[asm.pos + 1], asm.label_dict)
       IN  asm' = [asm EXCEPT !.pos = asm.pos + 1, !.i = st.i, !.out = st.out,
                              !.check = st.check,
                              !.pass = IF st.abort THEN "aborted" ELSE "pass2"]
    /\ UNCHANGED <<input_file, simvars>>

\* readline returns '' in pass 2: break, the test of check, the end
AsmEnd ==
    /\ asm.pass = "pass2"
    /\ asm.pos = Len(input_file)
    /\ asm' = [asm EXCEPT !.pass = "done"]
    /\ UNCHANGED <<input_file, simvars>>

\* a run of the assembler on one source file
AsmInit ==
    /\ SimInit
    /\ input_file \in AsmSources
    /\ asm = [AsmIdle EXCEPT !.pass = "pass1"]

AsmNext ==
    \/ Pass1Line
    \/ Rewind
    \/ Pass2Line
    \/ AsmEnd

AsmSpec == AsmInit /\ [][AsmNext]_vars

\* ============================================================== claims
\* The guard of Cycle: an instruction is about to be fetched and executed.
\* The guards of the actions are mutually exclusive, so a step that leaves
\* such a state is a step of Cycle.
AtFetch == phase = "running" /\ Looping /\ pc \in 0..31
\* a step in which execute_instruction ran and returned False
Failed == AtFetch /\ outcome' = "instr_error"
\* a step in which execute_instruction ran and returned True
Succeeded == AtFetch /\ instr_count' = instr_count + 1
\* the last 32 lines of the trace file are the memory dump
DumpWritten ==
    /\ Len(trace) >= NumWords
    /\ SubSeq(trace, Len(trace) - NumWords + 1, Len(trace)) = write_memory_dump(memory)

\* C1: after every return of execute_instruction, whatever the instruction
\* and whatever it returned, register 0 holds 0.
C1_X0ZeroAfterEveryReturn == registers[0] = Zero

\* C2: executing the halt pattern sets halted and leaves the PC, the
\* registers and the memory unchanged; halted is set by no other
\* instruction; once it is set nothing is fetched or executed any more.
C2_HaltStep ==
    [][ /\ (AtFetch /\ IsHalt(memory[pc]))
             => (~halted /\ halted' /\ pc' = pc /\ registers' = registers
                 /\ memory' = memory /\ outcome' = "none")
        /\ (halted' /\ ~halted) => (AtFetch /\ memory[pc] = Word(0, 99))
        /\ halted => (halted' /\ pc' = pc /\ registers' = registers
                      /\ memory' = memory /\ instr_count' = instr_count
                      /\ phase' = "done"
                      /\ (trace' = trace \/ trace' = trace \o write_memory_dump(memory)))
      ]_vars

C2_Witness ==
    /\ halted /\ phase = "done" /\ outcome = "success"
    /\ instr_count = 3 /\ pc = 2 /\ registers[1] # Zero

\* C3: a run in which the halt pattern is one of the first max_instructions
\* instructions executed (also the max_instructions-th) ends with success
\* and the memory dump; a run that ends with a failure writes no dump.
C3_HaltWithinBudgetSucceeds ==
    phase = "done" =>
        /\ (halted /\ instr_count <= max_instructions)
              => (outcome = "success" /\ DumpWritten)
        /\ outcome # "success" => ~DumpWritten

\* C4: an instruction is fetched and executed only with 0 <= pc < 32; with
\* the PC outside that range at the top of a cycle the run fails at once:
\* no trace line, nothing executed, no wrapped index.
C4_PCBounds ==
    [][ /\ ( \/ instr_count' # instr_count
             \/ Len(trace') = Len(trace) + 1
             \/ outcome' = "instr_error" ) => (pc >= 0 /\ pc < 32)
        /\ (phase = "running" /\ pc \notin 0..31) =>
              /\ phase' = "done"
              /\ outcome' = IF Looping THEN "pc_error" ELSE "budget"
              /\ trace' = trace /\ pc' = pc /\ registers' = registers
              /\ memory' = memory /\ halted' = halted
              /\ instr_count' = instr_count
      ]_vars

C4_Witness == phase = "done" /\ outcome = "pc_error" /\ pc >= 32 /\ instr_count = 2

\* C5: lw and sw touch memory only at word addr div 4, and only when that
\* index is in [0, 32); when it is not the instruction is fatal, lw leaves
\* rd (and every register) and sw leaves every memory word unchanged.
IsLW(w) == opcode(w) = 3 /\ funct3(w) = 2
IsSW(w) == opcode(w) = 35 /\ funct3(w) = 2
\* (registers[rs1] + sign_extend(imm12)) mod 2^32, imm12 read from the
\* I-type or S-type position
EffAddr(w) ==
    LET imm12 == IF opcode(w) = 3 THEN (w.hi \div 16) % 4096
                 ELSE ((w.hi \div 512) % 128) * 32 + ((w.lo \div 128) % 32)
        ext == IF imm12 >= 2048 THEN Word(65535, 61440 + imm12) ELSE Word(0, imm12)
    IN  Add32(registers[rs1(w)], ext)
WordIndex(w) == EffAddr(w).hi * 16384 + (EffAddr(w).lo \div 4)

C5_LoadStoreBounds ==
    [][ AtFetch =>
          LET w == memory[pc]
              idx == WordIndex(w)
          IN  /\ (IsLW(w) /\ idx \in 0..31) =>
                    /\ Succeeded /\ memory' = memory
                    /\ registers' = [[registers EXCEPT ![rd(w)] = memory[idx]]
                                        EXCEPT ![0] = Zero]
              /\ (IsSW(w) /\ idx \in 0..31) =>
                    /\ Succeeded /\ registers' = registers
                    /\ memory' = [memory EXCEPT ![idx] = registers[rs2(w)]]
              /\ ((IsLW(w) \/ IsSW(w)) /\ idx \notin 0..31) =>
                    /\ Failed /\ registers' = registers /\ memory' = memory
                    /\ pc' = pc
      ]_vars

\* a store through x2 = -4 + 0 was rejected: address 0xfffffffc
C5_Witness ==
    /\ phase = "done" /\ outcome = "instr_error" /\ pc \in 0..31
    /\ IsSW(memory[pc]) /\ WordIndex(memory[pc]) >= 32
    /\ registers[2] = Word(65535, 65532)

\* C6: an lw or sw whose effective address is not a multiple of 4 is
\* fatal: nothing is read into rd, nothing is written, and the access is
\* not truncated to word addr div 4.
C6_MisalignedIsFatal ==
    [][ (AtFetch /\ (IsLW(memory[pc]) \/ IsSW(memory[pc]))
                 /\ EffAddr(memory[pc]).lo % 4 # 0)
          => (Failed /\ registers' = registers /\ memory' = memory)
      ]_vars

\* C7: a taken beq/bne and a jal at word p set the PC to p + offset/4, with
\* offset the signed value of the decoded immediate, backward as well as
\* forward; jal sets rd to p + 1; a branch not taken sets the PC to p + 1.
C7_SignedBranchTargets ==
    [][ AtFetch =>
          LET w == memory[pc]
              taken == IF funct3(w) = 0
                       THEN registers[rs1(w)] = registers[rs2(w)]
                       ELSE registers[rs1(w)] # registers[rs2(w)]
          IN  /\ (opcode(w) = 99 /\ funct3(w) \in {0, 1} /\ ~IsHalt(w)) =>
                    /\ Succeeded
                    /\ pc' = IF taken THEN pc + (Signed32(imm_b(w)) \div 4) ELSE pc + 1
              /\ opcode(w) = 111 =>
                    /\ Succeeded
                    /\ pc' = pc + (Signed32(imm_j(w)) \div 4)
                    /\ rd(w) # 0 => registers'[rd(w)] = FromInt(pc + 1)
      ]_vars

\* C8: a run executes at most max_instructions instructions and ends in
\* exactly one of: halted with success, a fatal instruction or PC error, the
\* budget failure after max_instructions instructions without a halt.
C8_ThreeOutcomes ==
    /\ instr_count <= max_instructions
    /\ (phase = "done" /\ outcome # "load_error") =>
          \/ outcome = "success" /\ halted
          \/ outcome \in {"instr_error", "pc_error"} /\ ~halted
          \/ outcome = "budget" /\ ~halted /\ instr_count = max_instructions

\* the memory after loading the assembled loop
LoopMemory == load_program(LoopImage, [i \in 0..(NumWords - 1) |-> Zero]).memory

\* C9: the assembled program whose loop body is closed by an always-taken
\* backward branch runs until the budget is exhausted and ends with the
\* budget failure, not with another failure.
C9_BackwardLoopExhaustsBudget ==
    (phase = "done" /\ memory = LoopMemory)
        => (outcome = "budget" /\ instr_count = max_instructions)

\* C10: a run that halts after n instructions leaves n state lines, the
\* k-th holding PC * 4 and the 32 registers as they were before the k-th
\* instruction, followed by the 32 memory words in index order.
StateLineOf(line, p, regs) ==
    /\ Len(line) = NumRegs + 1
    /\ Len(line[1]) = 32
    /\ BitsValue(SubSeq(line[1], 2, 32)) = p * 4
    /\ \A r \in 0..(NumRegs - 1) :
          Len(line[r + 2]) = 32 /\ ParseLine(line[r + 2]) = regs[r]

C10_HaltedTraceShape ==
    [][ /\ AtFetch =>
              /\ Len(trace') = Len(trace) + 1
              /\ SubSeq(trace', 1, Len(trace)) = trace
              /\ StateLineOf(trace'[Len(trace')], pc, registers)
              /\ Len(trace) = instr_count
        /\ (phase' = "done" /\ halted') =>
              /\ Len(trace) = instr_count
              /\ Len(trace') = instr_count + NumWords
              /\ SubSeq(trace', 1, Len(trace)) = trace
              /\ \A k \in 1..NumWords :
                    /\ Len(trace'[instr_count + k]) = 1
                    /\ Len(trace'[instr_count + k][1]) = 32
                    /\ ParseLine(trace'[instr_count + k][1]) = memory[k - 1]
      ]_vars

\* What holds of the trace: the same shape, for the runs that end with
\* success (a halt before the max_instructions-th instruction).
TraceShapeOnSuccess ==
    [][ /\ AtFetch =>
              /\ Len(trace') = Len(trace) + 1
              /\ SubSeq(trace', 1, Len(trace)) = trace
              /\ StateLineOf(trace'[Len(trace')], pc, registers)
              /\ Len(trace) = instr_count
        /\ outcome' = "success" =>
              /\ halted /\ Len(trace) = instr_count
              /\ Len(trace') = instr_count + NumWords
              /\ SubSeq(trace', 1, Len(trace)) = trace
              /\ \A k \in 1..NumWords :
                    /\ Len(trace'[instr_count + k]) = 1
                    /\ Len(trace'[instr_count + k][1]) = 32
                    /\ ParseLine(trace'[instr_count + k][1]) = memory[k - 1]
        /\ (~AtFetch /\ outcome' # "success") => trace' = trace
      ]_vars

\* ------------------------------------------------------------------ C11
Scenario1Image == Assemble(Scenario1Source).out
Scenario1Memory ==
    load_program(Scenario1Image, [i \in 0..(NumWords - 1) |-> Zero]).memory
ZeroLine == [k \in 1..32 |-> 0]
\* a run of the image of scenario 1 (no instruction of it writes memory)
Scenario1Run == phase # "constructed" /\ memory = Scenario1Memory

\* C11 (as stated): the image assembled from `addi a0,zero,5` /
\* `beq zero,zero,0` has two words, its run halts with success, a0 holds 5
\* when the halt is reached, and the memory dump is 32 lines of zeros.
C11_Scenario1ZeroDump ==
    Scenario1Run =>
        /\ Len(Scenario1Image) = 2
        /\ outcome \in {"none", "success"}
        /\ halted => registers[10] = FromInt(5)
        /\ phase = "done" =>
              /\ halted /\ outcome = "success" /\ Len(trace) = 2 + NumWords
              /\ \A k \in 1..NumWords : trace[2 + k] = <<ZeroLine>>

\* C11 (amended): the same run; the dump is 32 lines, the first two the two
\* program words (0x00500513, 0x00000063) and the other 30 all zeros.
C11_Scenario1 ==
    Scenario1Run =>
        /\ Len(Scenario1Image) = 2
        /\ outcome \in {"none", "success"}
        /\ halted => registers[10] = FromInt(5)
        /\ phase = "done" =>
              /\ halted /\ outcome = "success" /\ Len(trace) = 2 + NumWords
              /\ trace[2][12] = Format032b(FromInt(5))
              /\ trace[3] = <<Format032b(Word(80, 1299))>>
              /\ trace[4] = <<Format032b(Word(0, 99))>>
              /\ \A k \in 3..NumWords : trace[2 + k] = <<ZeroLine>>

C11_Witness ==
    /\ Scenario1Run /\ phase = "done" /\ outcome = "success"
    /\ registers[10] = FromInt(5) /\ instr_count = 2

\* ============================================== claims on the assembler
\* Pass2Line is about to encode this line (the guards of the assembler's
\* actions are mutually exclusive)
AtEncode ==
    /\ asm.pass = "pass2" /\ asm.pos < Len(input_file)
    /\ ~input_file[asm.pos + 1].blank
    /\ input_file[asm.pos + 1].data # <<>>
\* the tokens of that line
CurData == input_file[asm.pos + 1].data
\* the line was encoded: one more output line, the run goes on
Emitted == asm'.pass = "pass2" /\ Len(asm'.out) = Len(asm.out) + 1
\* the word the simulator loads from the line just written
EmittedWord == ParseLine(asm'.out[Len(asm'.out)])
IsBits32(line) == Len(line) = 32 /\ \A k \in 1..32 : line[k] \in {0, 1}

\* the number of a register by its ABI name (x8 is s0 and fp)
RegNumber(name) ==
    IF name = "fp" THEN 8 ELSE (CHOOSE k \in 1..32 : RegisterNames[k] = name) - 1
ValidReg(tok) == ~tok.lit /\ tok.s \in AllRegs
\* n as a 32-bit two's-complement value
TwosComplement(n) == Word((n \div Half) % Half, n % Half)
BranchFunct3(m) ==
    CASE m = "beq" -> 0 [] m = "bne" -> 1 [] m = "blt" -> 4
      [] m = "bge" -> 5 [] m = "bltu" -> 6 [] m = "bgeu" -> 7

IsBranchLine(d) ==
    /\ Len(d) = 4 /\ d[1] \in {Sym(m) : m \in {"beq", "bne", "blt", "bge", "bltu", "bgeu"}}
    /\ ValidReg(d[2]) /\ ValidReg(d[3])
    /\ d[4].lit /\ d[4].n \in -2048..2047
IsJalLine(d) ==
    /\ Len(d) = 3 /\ d[1] = Sym("jal") /\ ValidReg(d[2])
    /\ d[3].lit /\ d[3].n \in -1048576..1048575

BranchRoundTrip(d) ==
    /\ Emitted /\ IsBits32(asm'.out[Len(asm'.out)])
    /\ opcode(EmittedWord) = 99
    /\ funct3(EmittedWord) = BranchFunct3(d[1].s)
    /\ rs1(EmittedWord) = RegNumber(d[2].s)
    /\ rs2(EmittedWord) = RegNumber(d[3].s)
    /\ imm_b(EmittedWord) = TwosComplement(d[4].n)
JalRoundTrip(d) ==
    /\ Emitted /\ IsBits32(asm'.out[Len(asm'.out)])
    /\ opcode(EmittedWord) = 111
    /\ rd(EmittedWord) = RegNumber(d[2].s)
    /\ imm_j(EmittedWord) = TwosComplement(d[3].n)

\* C12 (as stated): for every branch mnemonic with valid registers and every
\* literal offset in -2048..2047, and every jal with a valid rd and every
\* literal offset in -2^20..2^20-1, the emitted word decodes (field
\* extraction, imm_b / imm_j) to the same registers, funct3, opcode and
\* offset as a 32-bit two's-complement value.
C12_BranchJumpRoundTripAll ==
    [][ AtEncode =>
          /\ IsBranchLine(CurData) => BranchRoundTrip(CurData)
          /\ IsJalLine(CurData) => JalRoundTrip(CurData)
      ]_vars

\* C12 (amended): the same for every even literal offset; for an odd offset
\* the fields other than the offset are recovered and the decoded offset is
\* the operand with bit 0 cleared.
C12_BranchJumpRoundTrip ==
    [][ AtEncode =>
          /\ IsBranchLine(CurData) =>
                LET even == [CurData EXCEPT ![4] = Lit(CurData[4].n - (CurData[4].n % 2))]
                IN  BranchRoundTrip(even)
          /\ IsJalLine(CurData) =>
                LET even == [CurData EXCEPT ![3] = Lit(CurData[3].n - (CurData[3].n % 2))]
                IN  JalRoundTrip(even)
      ]_vars

C12_Witness ==
    /\ asm.pass = "done" /\ Len(asm.out) = 1
    /\ input_file = <<Ins(<<Sym("bgeu"), Sym("fp"), Sym("t1"), Lit(-2048)>>)>>
    /\ imm_b(ParseLine(asm.out[1])) = Word(65535, 63488)

\* ------------------------------------------------------------------ C13
\* lw rd, imm(rs1) / addi, sltiu, jalr rd, rs1, imm / sw rs2, imm(rs1)
IsLoadLine(d) ==
    /\ Len(d) = 4 /\ d[1] = Sym("lw") /\ ValidReg(d[2]) /\ ValidReg(d[4])
    /\ d[3].lit /\ d[3].n \in -2048..2047
IsImmLine(d) ==
    /\ Len(d) = 4 /\ d[1] \in {Sym("addi"), Sym("sltiu"), Sym("jalr")}
    /\ ValidReg(d[2]) /\ ValidReg(d[3])
    /\ d[4].lit /\ d[4].n \in -2048..2047
IsStoreLine(d) ==
    /\ Len(d) = 4 /\ d[1] = Sym("sw") /\ ValidReg(d[2]) /\ ValidReg(d[4])
    /\ d[3].lit /\ d[3].n \in -2048..2047

ImmOpcode(m) == CASE m = "addi" -> 19 [] m = "sltiu" -> 19 [] m = "jalr" -> 103
ImmFunct3(m) == CASE m = "addi" -> 0 [] m = "sltiu" -> 3 [] m = "jalr" -> 0

\* C13: for every lw/addi/sltiu/jalr/sw with valid register names and every
\* literal immediate in -2048..2047 the assembler emits exactly 32 bits, and
\* the simulator's masks and shifts recover the opcode, funct3, rd, rs1, rs2
\* and the immediate, sign-extended to 32 bits (the operand mod 2^32).
C13_ImmStoreRoundTrip ==
    [][ AtEncode =>
          /\ IsLoadLine(CurData) =>
                /\ Emitted /\ IsBits32(asm'.out[Len(asm'.out)])
                /\ opcode(EmittedWord) = 3 /\ funct3(EmittedWord) = 2
                /\ rd(EmittedWord) = RegNumber(CurData[2].s)
                /\ rs1(EmittedWord) = RegNumber(CurData[4].s)
                /\ imm_i(EmittedWord) = TwosComplement(CurData[3].n)
          /\ IsImmLine(CurData) =>
                /\ Emitted /\ IsBits32(asm'.out[Len(asm'.out)])
                /\ opcode(EmittedWord) = ImmOpcode(CurData[1].s)
                /\ funct3(EmittedWord) = ImmFunct3(CurData[1].s)
                /\ rd(EmittedWord) = RegNumber(CurData[2].s)
                /\ rs1(EmittedWord) = RegNumber(CurData[3].s)
                /\ imm_i(EmittedWord) = TwosComplement(CurData[4].n)
          /\ IsStoreLine(CurData) =>
                /\ Emitted /\ IsBits32(asm'.out[Len(asm'.out)])
                /\ opcode(EmittedWord) = 35 /\ funct3(EmittedWord) = 2
                /\ rs2(EmittedWord) = RegNumber(CurData[2].s)
                /\ rs1(EmittedWord) = RegNumber(CurData[4].s)
                /\ imm_s(EmittedWord) = TwosComplement(CurData[3].n)
      ]_vars

C13_Witness ==
    /\ asm.pass = "done" /\ Len(asm.out) = 1
    /\ input_file = <<Ins(<<Sym("sw"), Sym("a0"), Lit(-2048), Sym("sp")>>)>>
    /\ imm_s(ParseLine(asm.out[1])) = Word(65535, 63488)
    /\ rs2(ParseLine(asm.out[1])) = 10

\* ------------------------------------------------------------------ C14
Mnemonics ==
    DOMAIN RFunct \cup DOMAIN BFunct3
    \cup {"lw", "addi", "sltiu", "jalr", "sw", "lui", "auipc", "jal"}
\* the non-blank lines of the source file, in order
NonBlank == SelectSeq(input_file, LAMBDA ln : ~ln.blank)
\* the 0-based place, among the words of the output image, of the word of
\* the k-th non-blank line (of the next instruction, for a line that is a
\* label only)
WordPlace(k) == Cardinality({ j \in 1..(k - 1) : NonBlank[j].data # <<>> })
\* the label a branch or jump line refers to, <<>> if it refers to none
TargetLabel(d) ==
    IF d[1].s \in DOMAIN BFunct3 /\ Len(d) = 4 /\ ~d[4].lit THEN <<d[4].s>>
    ELSE IF d[1].s = "jal" /\ Len(d) = 3 /\ ~d[3].lit THEN <<d[3].s>>
    ELSE <<>>
DecodedOffset(w) == IF opcode(w) = 99 THEN imm_b(w) ELSE imm_j(w)

\* C14: the word encoded from the k-th non-blank line is the k-th line of
\* the output, and so the offset encoded for a branch or jump to a label,
\* (labelIndex - currentLineIndex) * 4, is the byte distance in the output
\* image between the branch's word and the word of the labelled instruction.
C14_OffsetsMatchOutputLayout ==
    [][ /\ (AtEncode /\ CurData[1].s \in Mnemonics /\ asm'.pass = "pass2") =>
              /\ Len(asm'.out) = Len(asm.out) + 1
              /\ Len(asm'.out) = asm'.i + 1
              /\ (TargetLabel(CurData) # <<>>) =>
                    DecodedOffset(EmittedWord) =
                        TwosComplement((asm.label_dict[TargetLabel(CurData)[1]] - asm'.i) * 4)
        /\ (asm.pass = "pass2" /\ asm'.pass = "done"
            /\ \A k \in 1..Len(NonBlank) :
                  NonBlank[k].data # <<>> => NonBlank[k].data[1].s \in Mnemonics) =>
              \A k \in 1..Len(NonBlank) :
                 LET d == NonBlank[k].data
                 IN  (d # <<>> /\ TargetLabel(d) # <<>>) =>
                        DecodedOffset(ParseLine(asm.out[WordPlace(k) + 1])) =
                           TwosComplement(
                              4 * (WordPlace(asm.label_dict[TargetLabel(d)[1]] + 1)
                                   - WordPlace(k)))
      ]_vars

\* ------------------------------------------------------------------ C15
\* the text of a label without the whitespace around it
Trimmed(text) ==
    LET inked == { k \in 1..Len(text) : text[k] \notin {" ", "\t"} }
    IN  IF inked = {} THEN ""
        ELSE Join(SubSeq(text, CHOOSE k \in inked : \A j \in inked : k <= j,
                               CHOOSE k \in inked : \A j \in inked : k >= j))
\* the k-th non-blank line declares label l
Declares(k, l) == NonBlank[k].label # <<>> /\ Trimmed(NonBlank[k].label[1]) = l
DeclaredLabels ==
    { Trimmed(NonBlank[k].label[1]) :
         k \in { j \in 1..Len(NonBlank) : NonBlank[j].label # <<>> } }
\* zero-based index, among the non-blank lines, of the last declaration of l
LastDeclaration(l) ==
    (CHOOSE k \in 1..Len(NonBlank) :
        Declares(k, l) /\ \A j \in (k + 1)..Len(NonBlank) : ~Declares(j, l)) - 1

\* C15: after pass 1 the label table maps every declared label, trimmed, to
\* the zero-based index (blank lines not counted) of the last line that
\* declares it, and holds nothing else; pass 2 never changes the table.
C15_LabelTable ==
    [][ asm.pass # "pass1" =>
          /\ DOMAIN asm.label_dict = DeclaredLabels
          /\ \A l \in DeclaredLabels : asm.label_dict[l] = LastDeclaration(l)
          /\ asm'.label_dict = asm.label_dict
      ]_vars

\* `top:` / blank / ` top\t: addi` / `bne ..., top`: top redeclared, with
\* whitespace around it, on the second non-blank line
C15_Witness ==
    /\ asm.pass = "done"
    /\ input_file = << SrcLine(<<<<"top">>>>, <<>>),
                       BlankLine,
                       SrcLine(<<<<" ", "top", "\t">>>>,
                               <<Sym("addi"), Sym("t1"), Sym("t1"), Lit(1)>>) >>
    /\ asm.label_dict = [l \in {"top"} |-> 1]

\* ------------------------------------------------------------------ C16
\* a word the engine does not implement, by the cases of the claim
Unimplemented(w) ==
    \/ opcode(w) \notin {51, 19, 3, 35, 103, 99, 111}
    \/ opcode(w) = 99 /\ funct3(w) \notin {0, 1}
    \/ opcode(w) = 51 /\ funct3(w) \in {1, 3, 4}
    \/ opcode(w) = 51 /\ funct3(w) = 0 /\ funct7(w) \notin {0, 32}
    \/ opcode(w) = 51 /\ funct3(w) = 5 /\ funct7(w) # 0
    \/ opcode(w) = 19 /\ funct3(w) # 0

\* C16: executing a word the engine does not implement (unknown opcode,
\* B-type funct3 other than 0 or 1, R-type funct3 in {1,3,4}, funct3 = 0
\* with funct7 outside {0x00,0x20}, funct3 = 5 with funct7 != 0, opcode
\* 0x13 with funct3 != 0) fails and leaves the PC, the registers, the
\* memory and the halt flag unchanged.
C16_UnimplementedIsFatal ==
    [][ (AtFetch /\ Unimplemented(memory[pc])) =>
          /\ Failed /\ phase' = "done"
          /\ pc' = pc /\ registers' = registers /\ memory' = memory
          /\ halted' = halted /\ instr_count' = instr_count
      ]_vars

\* addi x1, x0, 5 then blt x1, x0, +8: the run stops at the blt
C16_Witness ==
    /\ phase = "done" /\ outcome = "instr_error" /\ pc = 1
    /\ opcode(memory[pc]) = 99 /\ funct3(memory[pc]) = 4
    /\ registers[1] = FromInt(5) /\ ~halted

\* ------------------------------------------------------------------ C17
\* the operands of a line that stand in a register position
RegPositions(d) ==
    CASE d[1].s \in DOMAIN RFunct -> {2, 3, 4}
      [] d[1].s \in {"addi", "sltiu", "jalr"} -> {2, 3}
      [] d[1].s \in {"lw", "sw"} -> {2, 4}
      [] d[1].s \in DOMAIN BFunct3 -> {2, 3}
      [] d[1].s \in {"lui", "auipc", "jal"} -> {2}
      [] OTHER -> {}
OperandCount(d) == IF d[1].s \in {"lui", "auipc", "jal"} THEN 2 ELSE 3
\* a line whose only fault is an operand in a register position that is
\* not a register name (its immediate is a literal in -2048..2047)
BadRegisterLine(d) ==
    /\ d[1].s \in Mnemonics /\ Len(d) = OperandCount(d) + 1
    /\ \E k \in RegPositions(d) : ~ValidReg(d[k])
    /\ \A k \in (2..Len(d)) \ RegPositions(d) : d[k].lit /\ d[k].n \in -2048..2047

\* C17: an operand in a register position that is not a recognised register
\* name does not abort the run: a (degraded) line is still written for it
\* and the lines after it are still processed.
C17_BadRegisterDoesNotAbort ==
    [][ (AtEncode /\ BadRegisterLine(CurData)) =>
          /\ asm'.pass = "pass2"
          /\ Len(asm'.out) = Len(asm.out) + 1
          /\ asm'.pos = asm.pos + 1
      ]_vars

\* ------------------------------------------------------------------ C18
\* C18: memory always has exactly 32 words; an instruction other than a
\* successful sw leaves all of them unchanged; a successful sw changes only
\* memory[addr div 4], to registers[rs2]; every fetch reads the current
\* content of memory[pc], so a word stored over a program word is the
\* instruction executed there later.
C18_SharedMemory ==
    [][ /\ DOMAIN memory = 0..(NumWords - 1) /\ DOMAIN memory' = 0..(NumWords - 1)
        /\ (phase # "constructed" /\ ~(AtFetch /\ IsSW(memory[pc]) /\ Succeeded))
              => memory' = memory
        /\ (AtFetch /\ IsSW(memory[pc]) /\ Succeeded) =>
              /\ WordIndex(memory[pc]) \in 0..(NumWords - 1)
              /\ memory' = [memory EXCEPT ![WordIndex(memory[pc])] =
                                              registers[rs2(memory[pc])]]
        /\ AtFetch =>
              /\ IsHalt(memory[pc]) => (halted' /\ Succeeded)
              /\ Unimplemented(memory[pc]) => Failed
              /\ (opcode(memory[pc]) = 19 /\ funct3(memory[pc]) = 0)
                    => (Succeeded /\ pc' = pc + 1)
      ]_vars

\* addi x1, x0, 99 / sw x1, 12(x0) / addi x1, x1, 4 / lui: the store makes
\* word 3 the halt word, and the run halts there
C18_Witness ==
    /\ phase = "done" /\ outcome = "success" /\ halted /\ pc = 3
    /\ memory[3] = Word(0, 99) /\ memory[1] = EncS(12, 1, 0, 2, 35)
    /\ registers[1] = FromInt(103) /\ instr_count = 4

\* ------------------------------------------------------------------ C19
\* C19: whenever execute_instruction returns False, for whatever reason (a
\* jalr whose target word is outside [0, 32) included), the registers, the
\* memory, the PC and the halt flag are as they were before the instruction.
C19_FailureChangesNothing ==
    [][ Failed =>
          /\ registers' = registers /\ memory' = memory
          /\ pc' = pc /\ halted' = halted
      ]_vars

\* ------------------------------------------------------------------ C20
\* the trace shows that the instruction at word p (a jal or jalr with
\* rd = r) was executed, and that register r has held its link value,
\* p + 1, before every instruction executed since then, and holds it now
LinkedAt(r, p) ==
    /\ opcode(memory[p]) \in {111, 103} /\ rd(memory[p]) = r
    /\ registers[r] = FromInt(p + 1)
    /\ \E k \in 1..Len(trace) :
          /\ BitsValue(SubSeq(trace[k][1], 2, 32)) = p * 4
          /\ \A j \in (k + 1)..Len(trace) : ParseLine(trace[j][r + 2]) = FromInt(p + 1)

\* C20: when `jalr zero, r, 0` executes and r (not x0) still holds the link
\* value written by the jal or jalr at word p, control goes to word p + 1.
C20_CallReturn ==
    [][ AtFetch =>
          \A r \in 1..(NumRegs - 1) : \A p \in 0..(NumWords - 2) :
             (memory[pc] = EncI(0, r, 0, 0, 103) /\ LinkedAt(r, p))
                => (Succeeded /\ pc' = p + 1)
      ]_vars

\* ------------------------------------------------------------------ C21
\* the registers a step changes
ChangedRegs == { r \in 0..(NumRegs - 1) : registers'[r] # registers[r] }

\* C21: a successfully executed instruction changes at most one register,
\* its rd: beq/bne, sw and the halt pattern change none; R-type, addi and lw
\* change none other than rd and advance the PC by exactly one word.
C21_OnlyRdChanges ==
    [][ (AtFetch /\ Succeeded) =>
          /\ Cardinality(ChangedRegs) <= 1
          /\ opcode(memory[pc]) \in {99, 35} => ChangedRegs = {}
          /\ opcode(memory[pc]) \notin {99, 35} => ChangedRegs \subseteq {rd(memory[pc])}
          /\ opcode(memory[pc]) \in {51, 19, 3} => pc' = pc + 1
      ]_vars

\* addi x1, x0, 5 / add x4, x1, x2 / halt
C21_Witness ==
    /\ phase = "done" /\ outcome = "success" /\ instr_count = 3
    /\ registers[1] = FromInt(5) /\ registers[4] = FromInt(5)
    /\ memory[1] = EncR(0, 2, 1, 0, 4, 51)

\* ------------------------------------------------------------------ C22
\* a value in [0, 2^32): both 16-bit halves in range
InWord32(w) == w.hi \in 0..(Half - 1) /\ w.lo \in 0..(Half - 1)

\* C22: in every reachable state of load_program and execute_program each
\* of the 32 registers and each of the 32 memory words holds an integer in
\* [0, 2^32).
C22_ValuesIn32Bits ==
    /\ DOMAIN registers = 0..(NumRegs - 1)
    /\ DOMAIN memory = 0..(NumWords - 1)
    /\ \A r \in 0..(NumRegs - 1) : InWord32(registers[r])
    /\ \A k \in 0..(NumWords - 1) : InWord32(memory[k])

\* addi x2, x0, -4 wrapped to 0xfffffffc, and sw x2, 16(x2) stored it in
\* memory word 3
C22_Witness ==
    /\ phase = "done"
    /\ registers[2] = Word(65535, 65532)
    /\ memory[3] = Word(65535, 65532)

====
